---------------------------- MODULE Spec2Model ----------------------------
(***************************************************************************)
(* Payment service: the cart-payment API (app/payin/api/cart_payment/v1)   *)
(* and the transfer API (app/payout/api/transfer/v1) with the storage      *)
(* schema of StripePayoutRequest.                                          *)
(*                                                                         *)
(* The API adapters and the table definitions are translated from the      *)
(* source.  CartPaymentProcessor and TransferProcessors are imported by    *)
(* the adapters but their code is not among the source files; they are     *)
(* modelled from the design document (sections 4 to 7) and every such      *)
(* definition is marked "processor, from the design document".             *)
(*                                                                         *)
(* Each request is an independently scheduled task; a task is suspended    *)
(* exactly at its repository and gateway calls, so every action below is   *)
(* one such call together with the code that runs up to the next one.      *)
(*                                                                         *)
(* An Optional[T] value is a set with at most one element: {} is None.     *)
(***************************************************************************)
EXTENDS Integers, Sequences, FiniteSets, TLC

\* ------------------------------------------------------------------ bounds
MaxCalls == 2          \* create_cart_payment requests
MaxKeys == 2           \* distinct idempotency keys
MaxAmount == 2         \* amounts 1..MaxAmount

Calls == 1..MaxCalls
Keys == 1..MaxKeys
Amounts == 1..MaxAmount

None == {}

\* ------------------------------------------------- cart payment: the adapter

\* PayinErrorCode values the adapter distinguishes, and the others it can meet.
PAYMENT_METHOD_GET_NOT_FOUND == "PAYMENT_METHOD_GET_NOT_FOUND"
PAYMENT_METHOD_GET_PAYER_PAYMENT_METHOD_MISMATCH == "PAYMENT_METHOD_GET_PAYER_PAYMENT_METHOD_MISMATCH"
CONFLICT_ERROR == "ConflictError"
UNIQUE_VIOLATION == "UniqueViolationError"

\* starlette.status
HTTP_201_CREATED == 201
HTTP_400_BAD_REQUEST == 400
HTTP_403_FORBIDDEN == 403
HTTP_500_INTERNAL_SERVER_ERROR == 500

\* The sub-records a create request can carry: both omitted, or both supplied.
RequestSubRecords ==
    { [ legacy_payment |-> None, split_payment |-> None ],
      [ legacy_payment |-> {[consumer_id |-> 1, charge_id |-> 2, stripe_customer_id |-> 3]},
        split_payment |-> {[payout_account_id |-> 1, application_fee_amount |-> 5]} ] }

\* The payer every create request names, and the other payer of the service.
Payers == {"payer_1", "payer_2"}

\* CartType(value): the enum member of a wire value.
CartType(value) == IF value = "order_cart" THEN "ORDER_CART" ELSE "INVALID"

\* The metadata of a create request.
CreateMetadata == [ reference_id |-> 10, ct_reference_id |-> 11, type |-> "order_cart" ]

\* CreateCartPaymentRequest: the wire request.
CreateCartPaymentRequests ==
    { [ idempotency_key |-> k,
        payer_id |-> "payer_1",
        amount |-> a,
        payment_method_id |-> "pm_1",
        capture_method |-> "manual",
        metadata |-> CreateMetadata,
        client_description |-> {"description"},
        payer_statement_description |-> {"statement"},
        legacy_payment |-> sub.legacy_payment,
        split_payment |-> sub.split_payment ] :
      k \in Keys, a \in Amounts, sub \in RequestSubRecords }

\* getattr(obj, name, None): None for a missing object or a missing attribute.
GetAttr(obj, name) ==
    IF obj = None THEN None
    ELSE LET o == CHOOSE x \in obj : TRUE
         IN  IF name \in DOMAIN o THEN {o[name]} ELSE None

\* uuid4(): a value no earlier call of uuid4() returned.
uuid4(counter) == counter + 1

\* The id request_to_model gives the CartPayment it builds.
RequestModelIdConstant(fresh) == 1

RequestModelId(fresh) == fresh

\* The amount request_to_model copies from the request.
RequestModelAmountDropped(req) == 0

RequestModelAmount(req) == req.amount

\* request_to_model(cart_payment_request), given the uuid4() it draws.
request_to_model(req, fresh) ==
    [ id |-> RequestModelId(fresh),
      payer_id |-> req.payer_id,
      amount |-> RequestModelAmount(req),
      payment_method_id |-> req.payment_method_id,
      capture_method |-> req.capture_method,
      cart_metadata |->
          [ reference_id |-> req.metadata.reference_id,
            ct_reference_id |-> req.metadata.ct_reference_id,
            type |-> CartType(req.metadata.type) ],
      client_description |-> req.client_description,
      payer_statement_description |-> req.payer_statement_description,
      legacy_payment |->
          [ consumer_id |-> GetAttr(req.legacy_payment, "consumer_id"),
            charge_id |-> GetAttr(req.legacy_payment, "charge_id"),
            stripe_customer_id |-> GetAttr(req.legacy_payment, "stripe_customer_id") ],
      split_payment |->
          [ payout_account_id |-> GetAttr(req.split_payment, "payout_account_id"),
            application_fee_amount |-> GetAttr(req.split_payment, "appication_fee_amount") ],
      created_at |-> None,
      updated_at |-> None ]

\* The status code create_cart_payment gives a PaymentError.
HttpStatusForNoForbidden(error_code) ==
    IF error_code = PAYMENT_METHOD_GET_NOT_FOUND THEN HTTP_400_BAD_REQUEST
    ELSE HTTP_500_INTERNAL_SERVER_ERROR

HttpStatusFor(error_code) ==
    IF error_code = PAYMENT_METHOD_GET_NOT_FOUND THEN HTTP_400_BAD_REQUEST
    ELSE IF error_code = PAYMENT_METHOD_GET_PAYER_PAYMENT_METHOD_MISMATCH
         THEN HTTP_403_FORBIDDEN
         ELSE HTTP_500_INTERNAL_SERVER_ERROR

\* A PaymentError the processor raises.
PaymentError(code, retryable) ==
    [ error_code |-> code, error_message |-> code, retryable |-> retryable ]

\* What create_cart_payment hands back: the processor's CartPayment.
CartPaymentReturnedRequestModel(cart_payment, request_model) == request_model

CartPaymentReturned(cart_payment, request_model) == cart_payment

\* create_cart_payment's normal return.
CreatedResponse(cart_payment, request_model) ==
    [ kind |-> "ok",
      http_status_code |-> HTTP_201_CREATED,
      cart_payment |-> {CartPaymentReturned(cart_payment, request_model)},
      error |-> None ]

\* create_cart_payment's except branch: PaymentError to PaymentException.
PaymentException(payment_error) ==
    [ kind |-> "exception",
      http_status_code |-> HttpStatusFor(payment_error.error_code),
      cart_payment |-> None,
      error |-> { [ error_code |-> payment_error.error_code,
                    error_message |-> payment_error.error_message,
                    retryable |-> payment_error.retryable ] } ]

NoResponse ==
    [ kind |-> "none", http_status_code |-> 0, cart_payment |-> None, error |-> None ]

\* ----------------------------------- cart payment: processor, from the design document

\* The payload of a CartPayment: everything but its id.
Payload(cart_payment) == [cart_payment EXCEPT !.id = 0]

\* The stored rows of an idempotency key.
get_by_idempotency_key(rows, key) == { r \in rows : r.idempotency_key = key }

\* Whether storage refuses an insert under this key (uniqueness of the key).
UniquenessViolated(rows, key) == get_by_idempotency_key(rows, key) # {}

\* What submit_payment does with a uniqueness violation: retry as a read.
OnUniquenessViolation == "reread"

\* What submit_payment answers when the key already has a stored CartPayment.
ExistingResult(existing, request_model) ==
    IF Payload(existing.cart_payment) = Payload(request_model)
    THEN CreatedResponse(existing.cart_payment, request_model)
    ELSE PaymentException(PaymentError(CONFLICT_ERROR, FALSE))

\* The PaymentError submit_payment raises in that case, if any.
ExistingError(existing, request_model) ==
    IF Payload(existing.cart_payment) = Payload(request_model)
    THEN None
    ELSE {PaymentError(CONFLICT_ERROR, FALSE)}

VARIABLES
    cartPayments,    \* storage: rows [idempotency_key, cart_payment]
    uuidCounter,     \* the uuid4() values drawn so far
    pc,              \* per request: idle, resolve, lookup, insert, reread, done
    request,         \* per request: the CreateCartPaymentRequest
    requestModel,    \* per request: request_to_model's CartPayment
    response,        \* per request: what create_cart_payment returned or raised
    raced,           \* per request: its insert met a uniqueness violation
    paymentError     \* per request: the PaymentError submit_payment raised

payinVars == <<cartPayments, uuidCounter, pc, request, requestModel, response, raced,
               paymentError>>

VARIABLES
    transfers,       \* storage: the Transfer rows, by id
    lastBody,        \* history: the body of the latest create_transfer (RecordedSpec)
    payoutRequests,  \* storage: the StripePayoutRequest rows
    gwProcessed,     \* the provider: [idempotency_key, provider_id] it has paid out
    moneyMoved,      \* the provider: money movements per transfer
    gwLog,           \* the gateway client's calls
    spc,             \* per submit request: idle, check, gateway, persist, done
    sbody,           \* per submit request: path transfer_id and body
    sreq,            \* per submit request: the SubmitTransferRequest
    sseen,           \* per submit request: the Transfer status it read
    soutcome,        \* per submit request: the gateway's answer
    sresp            \* per submit request: what submit_transfer returned or raised

payoutVars == <<transfers, lastBody, payoutRequests, gwProcessed, moneyMoved, gwLog,
                spc, sbody, sreq, sseen, soutcome, sresp>>

VARIABLES
    upc,             \* per update request: idle, read, adjust, persist, done
    ubody,           \* per update request: path cart_payment_id and body
    uargs,           \* per update request: the arguments update_payment was given
    uadjust,         \* per update request: the gateway adjustment: none, ok, failed
    uresp            \* per update request: what update_cart_payment returned or raised

updateVars == <<upc, ubody, uargs, uadjust, uresp>>

VARIABLES
    clock,           \* datetime.utcnow() of the server
    master,          \* payment_account_edit_history on the master, in insert order
    replicated,      \* how many of the master's rows the replica holds
    hpc,             \* per record_bank_update call: idle, insert, done
    hdata,           \* per record_bank_update call: the PaymentAccountEditHistoryCreate
    hts,             \* per record_bank_update call: ts_now
    hret,            \* per record_bank_update call: the row returned
    rpc,             \* per read call: idle, fetch, done
    rcall,           \* per read call: the operation and its arguments
    rnow,            \* per read call: the clock when it was called
    rknown,          \* per read call: the rows record_bank_update had returned by then
    rseen,           \* per read call: the rows the replica held when it answered
    rresult          \* per read call: the rows (or account ids) returned

historyVars == <<clock, master, replicated, hpc, hdata, hts, hret,
                 rpc, rcall, rnow, rknown, rseen, rresult>>

vars == <<payinVars, payoutVars, updateVars, historyVars>>

nonPayinVars == <<payoutVars, updateVars, historyVars>>
nonPayoutVars == <<payinVars, updateVars, historyVars>>
nonUpdateVars == <<payoutVars, historyVars, uuidCounter, pc, request, requestModel,
                   response, raced, paymentError>>
nonHistoryVars == <<payinVars, payoutVars, updateVars>>

NoRequest ==
    [ idempotency_key |-> 0, payer_id |-> "", amount |-> 0, payment_method_id |-> "",
      capture_method |-> "",
      metadata |-> [ reference_id |-> 0, ct_reference_id |-> 0, type |-> "" ],
      client_description |-> None, payer_statement_description |-> None,
      legacy_payment |-> None, split_payment |-> None ]

NoModel == request_to_model(NoRequest, 0)

PayinInit ==
    /\ cartPayments = {}
    /\ uuidCounter = 0
    /\ pc = [c \in Calls |-> "idle"]
    /\ request = [c \in Calls |-> NoRequest]
    /\ requestModel = [c \in Calls |-> NoModel]
    /\ response = [c \in Calls |-> NoResponse]
    /\ raced = [c \in Calls |-> FALSE]
    /\ paymentError = [c \in Calls |-> None]

\* create_cart_payment is entered: request_to_model runs, submit_payment is awaited.
CreateCartPayment(c, req) ==
    /\ pc[c] = "idle"
    /\ IF c = 1 THEN TRUE ELSE pc[c - 1] # "idle"
    /\ uuidCounter' = uuid4(uuidCounter)
    /\ request' = [request EXCEPT ![c] = req]
    /\ requestModel' = [requestModel EXCEPT ![c] = request_to_model(req, uuidCounter')]
    /\ pc' = [pc EXCEPT ![c] = "resolve"]
    /\ UNCHANGED <<cartPayments, response, raced, paymentError>>
    /\ UNCHANGED nonPayinVars

\* submit_payment: the payment-method lookup answers.
ResolvePaymentMethod(c) ==
    /\ pc[c] = "resolve"
    /\ \E outcome \in { "ok", PAYMENT_METHOD_GET_NOT_FOUND,
                        PAYMENT_METHOD_GET_PAYER_PAYMENT_METHOD_MISMATCH } :
          IF outcome = "ok"
          THEN /\ pc' = [pc EXCEPT ![c] = "lookup"]
               /\ UNCHANGED <<response, paymentError>>
          ELSE /\ pc' = [pc EXCEPT ![c] = "done"]
               /\ paymentError' = [paymentError EXCEPT
                                     ![c] = {PaymentError(outcome, FALSE)}]
               /\ response' = [response EXCEPT
                                 ![c] = PaymentException(PaymentError(outcome, FALSE))]
    /\ UNCHANGED <<cartPayments, uuidCounter, request, requestModel, raced>>
    /\ UNCHANGED nonPayinVars

\* submit_payment: the read by idempotency key answers.
LookupIdempotencyKey(c) ==
    /\ pc[c] = "lookup"
    /\ LET found == get_by_idempotency_key(cartPayments, request[c].idempotency_key)
       IN  IF found = {}
           THEN /\ pc' = [pc EXCEPT ![c] = "insert"]
                /\ UNCHANGED <<response, paymentError>>
           ELSE /\ pc' = [pc EXCEPT ![c] = "done"]
                /\ paymentError' = [paymentError EXCEPT
                      ![c] = ExistingError(CHOOSE r \in found : TRUE, requestModel[c])]
                /\ response' = [response EXCEPT
                      ![c] = ExistingResult(CHOOSE r \in found : TRUE, requestModel[c])]
    /\ UNCHANGED <<cartPayments, uuidCounter, request, requestModel, raced>>
    /\ UNCHANGED nonPayinVars

\* submit_payment: the insert answers.
InsertCartPayment(c) ==
    /\ pc[c] = "insert"
    /\ IF UniquenessViolated(cartPayments, request[c].idempotency_key)
       THEN /\ raced' = [raced EXCEPT ![c] = TRUE]
            /\ IF OnUniquenessViolation = "reread"
               THEN /\ pc' = [pc EXCEPT ![c] = "reread"]
                    /\ UNCHANGED <<response, paymentError>>
               ELSE /\ pc' = [pc EXCEPT ![c] = "done"]
                    /\ paymentError' = [paymentError EXCEPT
                          ![c] = {PaymentError(UNIQUE_VIOLATION, TRUE)}]
                    /\ response' = [response EXCEPT
                          ![c] = PaymentException(PaymentError(UNIQUE_VIOLATION, TRUE))]
            /\ UNCHANGED cartPayments
       ELSE /\ cartPayments' = cartPayments \cup
                  { [ idempotency_key |-> request[c].idempotency_key,
                      cart_payment |-> requestModel[c] ] }
            /\ pc' = [pc EXCEPT ![c] = "done"]
            /\ response' = [response EXCEPT
                              ![c] = CreatedResponse(requestModel[c], requestModel[c])]
            /\ UNCHANGED <<raced, paymentError>>
    /\ UNCHANGED <<uuidCounter, request, requestModel>>
    /\ UNCHANGED nonPayinVars

\* submit_payment: the read of the winner's row answers.
RereadCartPayment(c) ==
    /\ pc[c] = "reread"
    /\ LET found == get_by_idempotency_key(cartPayments, request[c].idempotency_key)
       IN  /\ pc' = [pc EXCEPT ![c] = "done"]
           /\ paymentError' = [paymentError EXCEPT
                 ![c] = ExistingError(CHOOSE r \in found : TRUE, requestModel[c])]
           /\ response' = [response EXCEPT
                 ![c] = ExistingResult(CHOOSE r \in found : TRUE, requestModel[c])]
    /\ UNCHANGED <<cartPayments, uuidCounter, request, requestModel, raced>>
    /\ UNCHANGED nonPayinVars

PayinNext ==
    \/ \E c \in Calls, req \in CreateCartPaymentRequests : CreateCartPayment(c, req)
    \/ \E c \in Calls : ResolvePaymentMethod(c)
    \/ \E c \in Calls : LookupIdempotencyKey(c)
    \/ \E c \in Calls : InsertCartPayment(c)
    \/ \E c \in Calls : RereadCartPayment(c)

\* -------------------------------------------- cart payment update: the adapter

MaxUpdates == 2        \* update_cart_payment requests

UpdateCalls == 1..MaxUpdates

\* The cart_payment_id a request can name: the stored ones and one that is not.
CartPaymentIds == 1..(MaxCalls + 1)

\* The optional fields an update request supplies: none, the legacy payment,
\* the metadata and the descriptions, or all of them.
UpdateOptionals ==
    LET legacy == {[consumer_id |-> 7, charge_id |-> 8, stripe_customer_id |-> 9]}
        meta == {[reference_id |-> 20, ct_reference_id |-> 21, type |-> "order_cart"]}
    IN  { [ legacy_payment |-> None, metadata |-> None,
            client_description |-> None, payer_statement_description |-> None ],
          [ legacy_payment |-> legacy, metadata |-> None,
            client_description |-> None, payer_statement_description |-> None ],
          [ legacy_payment |-> None, metadata |-> meta,
            client_description |-> {"new description"},
            payer_statement_description |-> {"new statement"} ],
          [ legacy_payment |-> legacy, metadata |-> meta,
            client_description |-> {"new description"},
            payer_statement_description |-> {"new statement"} ] }

\* UpdateCartPaymentRequest: the wire request.
UpdateCartPaymentRequests ==
    { [ idempotency_key |-> 1,
        payer_id |-> p,
        amount |-> a,
        legacy_payment |-> opt.legacy_payment,
        client_description |-> opt.client_description,
        payer_statement_description |-> opt.payer_statement_description,
        metadata |-> opt.metadata ] :
      p \in Payers, a \in Amounts, opt \in UpdateOptionals }

\* get_legacy_payment_model(cart_payment_request): Optional[LegacyPayment].
GetLegacyPaymentModelAlways(req) ==
    { [ consumer_id |-> GetAttr(req.legacy_payment, "consumer_id"),
        stripe_customer_id |-> GetAttr(req.legacy_payment, "stripe_customer_id"),
        charge_id |-> GetAttr(req.legacy_payment, "charge_id") ] }

get_legacy_payment_model(req) ==
    IF req.legacy_payment = None
    THEN None
    ELSE { [ consumer_id |-> {lp.consumer_id},
             stripe_customer_id |-> {lp.stripe_customer_id},
             charge_id |-> {lp.charge_id} ] : lp \in req.legacy_payment }

\* get_cart_payment_metadata_model(cart_payment_request): Optional[CartMetadata].
get_cart_payment_metadata_model(req) ==
    IF req.metadata = None
    THEN None
    ELSE { [ reference_id |-> m.reference_id,
             ct_reference_id |-> m.ct_reference_id,
             type |-> m.type ] : m \in req.metadata }

\* The keyword arguments update_cart_payment gives update_payment.
UpdatePaymentArgs(cart_payment_id, req) ==
    [ idempotency_key |-> req.idempotency_key,
      cart_payment_id |-> cart_payment_id,
      payer_id |-> req.payer_id,
      amount |-> req.amount,
      legacy_payment |-> get_legacy_payment_model(req),
      client_description |-> req.client_description,
      payer_statement_description |-> req.payer_statement_description,
      metadata |-> get_cart_payment_metadata_model(req) ]

NoUpdateResponse == [ kind |-> "none", cart_payment |-> None, error_code |-> "" ]

\* update_cart_payment's return: the processor's CartPayment.
UpdatedResponse(cart_payment) ==
    [ kind |-> "ok", cart_payment |-> {cart_payment}, error_code |-> "" ]

\* An error of update_payment leaves update_cart_payment as it was raised.
UpdateError(code) == [ kind |-> "error", cart_payment |-> None, error_code |-> code ]

\* --------------------------- cart payment update: processor, from the design document

\* The stored rows of a cart payment id.
get_by_id(rows, id) == { r \in rows : r.cart_payment.id = id }

\* update(partial_fields): the amount and the supplied optional fields are set.
ApplyPartial(cart_payment, args) ==
    [ cart_payment EXCEPT
        !.amount = args.amount,
        !.legacy_payment =
            IF args.legacy_payment = None THEN @ ELSE CHOOSE lp \in args.legacy_payment : TRUE,
        !.cart_metadata =
            IF args.metadata = None THEN @ ELSE CHOOSE m \in args.metadata : TRUE,
        !.client_description =
            IF args.client_description = None THEN @ ELSE args.client_description,
        !.payer_statement_description =
            IF args.payer_statement_description = None THEN @
            ELSE args.payer_statement_description ]

\* Where update_payment goes after the gateway's answer to the adjustment.
StepAfterAdjustmentPersist(outcome) == "persist"

StepAfterAdjustment(outcome) == IF outcome = "ok" THEN "persist" ELSE "done"

NoUpdateBody ==
    [ cart_payment_id |-> 0,
      request |-> [ idempotency_key |-> 0, payer_id |-> "", amount |-> 0,
                    legacy_payment |-> None, client_description |-> None,
                    payer_statement_description |-> None, metadata |-> None ] ]

UpdateInit ==
    /\ upc = [u \in UpdateCalls |-> "idle"]
    /\ ubody = [u \in UpdateCalls |-> NoUpdateBody]
    /\ uargs = [u \in UpdateCalls |-> UpdatePaymentArgs(0, NoUpdateBody.request)]
    /\ uadjust = [u \in UpdateCalls |-> "none"]
    /\ uresp = [u \in UpdateCalls |-> NoUpdateResponse]

\* update_cart_payment is entered: the arguments are built, update_payment is awaited.
UpdateCartPayment(u, cart_payment_id, req) ==
    /\ upc[u] = "idle"
    /\ IF u = 1 THEN TRUE ELSE upc[u - 1] # "idle"
    /\ ubody' = [ubody EXCEPT ![u] = [cart_payment_id |-> cart_payment_id, request |-> req]]
    /\ uargs' = [uargs EXCEPT ![u] = UpdatePaymentArgs(cart_payment_id, req)]
    /\ upc' = [upc EXCEPT ![u] = "read"]
    /\ UNCHANGED <<uadjust, uresp, cartPayments>>
    /\ UNCHANGED nonUpdateVars

\* update_payment: the read by id answers; an amount change of a captured
\* payment needs the gateway's adjustment.
ReadCartPayment(u) ==
    /\ upc[u] = "read"
    /\ LET found == get_by_id(cartPayments, uargs[u].cart_payment_id)
       IN  IF found = {}
           THEN /\ upc' = [upc EXCEPT ![u] = "done"]
                /\ uresp' = [uresp EXCEPT ![u] = UpdateError("NotFoundError")]
           ELSE LET row == CHOOSE r \in found : TRUE
                IN  IF row.cart_payment.payer_id # uargs[u].payer_id
                    THEN /\ upc' = [upc EXCEPT ![u] = "done"]
                         /\ uresp' = [uresp EXCEPT
                                        ![u] = UpdateError("OwnershipMismatchError")]
                    ELSE /\ \E captured \in BOOLEAN :
                              upc' = [upc EXCEPT ![u] =
                                  IF captured /\ row.cart_payment.amount # uargs[u].amount
                                  THEN "adjust" ELSE "persist"]
                         /\ UNCHANGED uresp
    /\ UNCHANGED <<ubody, uargs, uadjust, cartPayments>>
    /\ UNCHANGED nonUpdateVars

\* update_payment: the gateway answers the adjustment of the charge.
AdjustCharge(u) ==
    /\ upc[u] = "adjust"
    /\ \E outcome \in {"ok", "failed"} :
          /\ uadjust' = [uadjust EXCEPT ![u] = outcome]
          /\ upc' = [upc EXCEPT ![u] = StepAfterAdjustment(outcome)]
          /\ uresp' = [uresp EXCEPT ![u] =
                IF outcome = "ok" THEN @ ELSE UpdateError("GatewayError")]
    /\ UNCHANGED <<ubody, uargs, cartPayments>>
    /\ UNCHANGED nonUpdateVars

\* update_payment: the partial update is written and the call returns the row.
PersistUpdate(u) ==
    /\ upc[u] = "persist"
    /\ LET found == get_by_id(cartPayments, uargs[u].cart_payment_id)
           row == CHOOSE r \in found : TRUE
           new == [row EXCEPT !.cart_payment = ApplyPartial(@, uargs[u])]
       IN  /\ cartPayments' = (cartPayments \ {row}) \cup {new}
           /\ uresp' = [uresp EXCEPT ![u] = UpdatedResponse(new.cart_payment)]
    /\ upc' = [upc EXCEPT ![u] = "done"]
    /\ UNCHANGED <<ubody, uargs, uadjust>>
    /\ UNCHANGED nonUpdateVars

UpdateNext ==
    \/ \E u \in UpdateCalls, id \in CartPaymentIds, req \in UpdateCartPaymentRequests :
          UpdateCartPayment(u, id, req)
    \/ \E u \in UpdateCalls : ReadCartPayment(u)
    \/ \E u \in UpdateCalls : AdjustCharge(u)
    \/ \E u \in UpdateCalls : PersistUpdate(u)

\* The create request the seeded request c made: key c, with sub-records for even c.
SeedRequest(c) ==
    CHOOSE req \in CreateCartPaymentRequests :
       /\ req.idempotency_key = c
       /\ req.amount = ((c - 1) % MaxAmount) + 1
       /\ (req.legacy_payment = None) = (c % 2 = 1)

\* The service after each create request that has a key of its own returned.
SeededPayinInit ==
    LET seeded == Calls \cap Keys
        model(c) == request_to_model(SeedRequest(c), c)
    IN  /\ cartPayments = { [ idempotency_key |-> c, cart_payment |-> model(c) ] :
                               c \in seeded }
        /\ uuidCounter = Cardinality(seeded)
        /\ pc = [c \in Calls |-> IF c \in seeded THEN "done" ELSE "idle"]
        /\ request = [c \in Calls |-> IF c \in seeded THEN SeedRequest(c) ELSE NoRequest]
        /\ requestModel = [c \in Calls |-> IF c \in seeded THEN model(c) ELSE NoModel]
        /\ response = [c \in Calls |->
              IF c \in seeded THEN CreatedResponse(model(c), model(c)) ELSE NoResponse]
        /\ raced = [c \in Calls |-> FALSE]
        /\ paymentError = [c \in Calls |-> None]

\* ----------------------------------------------------- transfer: the adapter

MaxTransfers == 2      \* transfers created
MaxSubmits == 2        \* submit_transfer requests

TransferIds == 1..MaxTransfers
SubmitCalls == 1..MaxSubmits

PayoutAccounts == {1, 2}
Countries == {"US", "CA"}
CountrySets == { {"US"}, {"US", "CA"} }

\* Time windows [start_time, end_time) a request can name; the last one is empty.
Windows == { <<1, 2>>, <<2, 3>>, <<1, 3>>, <<2, 2>> }

\* transfer_models.CreateTransfer: the request body (the fields the amount and
\* the status depend on).
CreateTransferBodies ==
    { [ payout_account_id |-> a, start_time |-> w[1], end_time |-> w[2],
        payout_countries |-> cs ] :
      a \in PayoutAccounts, w \in Windows, cs \in CountrySets }

\* transfer_models.SubmitTransfer: the request body.
SubmitTransferBodies == [ retry : BOOLEAN ]

\* create_transfer: the CreateTransferRequest built from the body.
CreateTransferRequestSwapped(body) ==
    [ payout_account_id |-> body.payout_account_id,
      start_time |-> body.end_time,
      end_time |-> body.start_time,
      payout_countries |-> body.payout_countries ]

CreateTransferRequest(body) ==
    [ payout_account_id |-> body.payout_account_id,
      start_time |-> body.start_time,
      end_time |-> body.end_time,
      payout_countries |-> body.payout_countries ]

\* submit_transfer: the SubmitTransferRequest built from the path and the body.
SubmitTransferRequestRetryNegated(transfer_id, body) ==
    [ transfer_id |-> transfer_id, retry |-> ~body.retry ]

SubmitTransferRequestRetryDropped(transfer_id, body) ==
    [ transfer_id |-> transfer_id, retry |-> FALSE ]

SubmitTransferRequest(transfer_id, body) ==
    [ transfer_id |-> transfer_id, retry |-> body.retry ]

\* ------------------------------------------ StripePayoutRequestTable: the schema

\* payout_id: nullable=False, unique=True.
PayoutIdUnique == TRUE

\* idempotency_key: nullable=False, and no unique constraint.
IdempotencyKeyUnique == FALSE

\* Whether the table accepts the row beside the rows it holds.
InsertAccepted(rows, row) ==
    /\ PayoutIdUnique => \A r \in rows : r.payout_id # row.payout_id
    /\ IdempotencyKeyUnique => \A r \in rows : r.idempotency_key # row.idempotency_key

\* --------------------------------------- transfer: processor, from the design document

\* The minimum payout threshold T.
MinPayoutThreshold == 5

\* The payable line items in storage.
LineItems ==
    { [ id |-> 1, payout_account_id |-> 1, time |-> 1, country |-> "US", amount |-> 6 ],
      [ id |-> 2, payout_account_id |-> 1, time |-> 2, country |-> "US", amount |-> 5 ],
      [ id |-> 3, payout_account_id |-> 1, time |-> 2, country |-> "CA", amount |-> 7 ],
      [ id |-> 4, payout_account_id |-> 2, time |-> 1, country |-> "US", amount |-> 3 ] }

RECURSIVE Total(_)
Total(items) ==
    IF items = {} THEN 0
    ELSE LET li == CHOOSE x \in items : TRUE
         IN  li.amount + Total(items \ {li})

\* The line items already attached to a non-cancelled Transfer of the account.
AttachedNone(rows, account) == {}

Attached(rows, account) ==
    UNION { rows[i].items :
            i \in { j \in DOMAIN rows : /\ rows[j].payout_account_id = account
                                        /\ rows[j].status # "CANCELLED" } }

\* The aggregation query of create_transfer.
query_range(rows, req) ==
    { li \in LineItems :
        /\ li.payout_account_id = req.payout_account_id
        /\ req.start_time <= li.time
        /\ li.time < req.end_time
        /\ li.country \in req.payout_countries
        /\ li \notin Attached(rows, req.payout_account_id) }

\* Whether create_transfer skips a payout of this total.
Skipped(total) == total <= MinPayoutThreshold

\* The Transfer create_transfer persists (the fields its later handling reads).
NewTransfer(rows, req) ==
    LET items == query_range(rows, req)
        total == Total(items)
    IN  IF Skipped(total)
        THEN [ payout_account_id |-> req.payout_account_id,
               status |-> "SKIPPED", amount |-> 0, items |-> {} ]
        ELSE [ payout_account_id |-> req.payout_account_id,
               status |-> "CREATED", amount |-> total, items |-> items ]

\* The idempotency key of a submission: derived from transfer_id alone.
IdempotencyKeyFresh(transfer_id, attempt) == transfer_id + MaxTransfers * attempt

IdempotencyKey(transfer_id, attempt) == transfer_id

\* What submit_transfer decides from the status it reads.
SubmitDecision(status, retry) ==
    IF retry
    THEN IF status = "ERROR" THEN "start" ELSE "invalid"
    ELSE CASE status = "CREATED" -> "start"
           [] status \in {"SUBMITTING", "SUBMITTED"} -> "existing"
           [] OTHER -> "invalid"

\* The Transfer status after the gateway's answer.
StatusAfterGatewayStuck(outcome) ==
    IF outcome = "ok" THEN "SUBMITTED"
    ELSE IF outcome = "retryable" THEN "SUBMITTING" ELSE "ERROR"

StatusAfterGateway(outcome) == IF outcome = "ok" THEN "SUBMITTED" ELSE "ERROR"

\* The StripePayoutRequest status after the gateway's answer.
RequestStatusAfterGateway(outcome) == IF outcome = "ok" THEN "paid" ELSE "failed"

NoSubmitResponse ==
    [ kind |-> "none", payout |-> None, error_code |-> "", retryable |-> FALSE ]

PayoutResponse(row) ==
    [ kind |-> "ok", payout |-> {row}, error_code |-> "", retryable |-> FALSE ]

SubmitError(code, retryable) ==
    [ kind |-> "error", payout |-> None, error_code |-> code, retryable |-> retryable ]

NoSubmitBody == [ transfer_id |-> 0, retry |-> FALSE ]

NoCreateBody ==
    [ payout_account_id |-> 0, start_time |-> 0, end_time |-> 0, payout_countries |-> {} ]

PayoutInit ==
    /\ transfers = <<>>
    /\ lastBody = NoCreateBody
    /\ payoutRequests = {}
    /\ gwProcessed = {}
    /\ moneyMoved = [t \in TransferIds |-> 0]
    /\ gwLog = {}
    /\ spc = [s \in SubmitCalls |-> "idle"]
    /\ sbody = [s \in SubmitCalls |-> NoSubmitBody]
    /\ sreq = [s \in SubmitCalls |-> NoSubmitBody]
    /\ sseen = [s \in SubmitCalls |-> "none"]
    /\ soutcome = [s \in SubmitCalls |-> "none"]
    /\ sresp = [s \in SubmitCalls |-> NoSubmitResponse]

\* create_transfer: the request is built, the processor aggregates and persists.
CreateTransferStep(body) ==
    /\ Len(transfers) < MaxTransfers
    /\ transfers' = Append(transfers, NewTransfer(transfers, CreateTransferRequest(body)))
    /\ UNCHANGED <<payoutRequests, gwProcessed, moneyMoved, gwLog,
                   spc, sbody, sreq, sseen, soutcome, sresp>>
    /\ UNCHANGED nonPayoutVars

CreateTransfer(body) == CreateTransferStep(body) /\ UNCHANGED lastBody

\* The same step, with the request body kept as history.
CreateTransferRecorded(body) == CreateTransferStep(body) /\ lastBody' = body

\* submit_transfer is entered: the request is built, the processor is awaited.
SubmitTransfer(s, transfer_id, body) ==
    /\ spc[s] = "idle"
    /\ IF s = 1 THEN TRUE ELSE spc[s - 1] # "idle"
    /\ sbody' = [sbody EXCEPT ![s] = [transfer_id |-> transfer_id, retry |-> body.retry]]
    /\ sreq' = [sreq EXCEPT ![s] = SubmitTransferRequest(transfer_id, body)]
    /\ spc' = [spc EXCEPT ![s] = "check"]
    /\ UNCHANGED <<transfers, lastBody, payoutRequests, gwProcessed, moneyMoved,
                   gwLog, sseen, soutcome, sresp>>
    /\ UNCHANGED nonPayoutVars

\* The StripePayoutRequest rows of a payout.
RequestsOf(rows, payout_id) == { r \in rows : r.payout_id = payout_id }

\* The rows after the processor stores the request of a new submission: an insert,
\* or, when the table refuses it, the payout's row taken over.
StoreRequest(rows, row) ==
    IF InsertAccepted(rows, row)
    THEN rows \cup {row}
    ELSE (rows \ RequestsOf(rows, row.payout_id)) \cup {row}

\* The payout record of a transfer: its latest StripePayoutRequest.
PayoutRecord(rows, payout_id) == CHOOSE r \in RequestsOf(rows, payout_id) : TRUE

\* submit_transfer: the read-modify-write of the Transfer row answers.
CheckTransfer(s) ==
    /\ spc[s] = "check"
    /\ LET t == sreq[s].transfer_id IN
       IF t \notin DOMAIN transfers
       THEN /\ sseen' = [sseen EXCEPT ![s] = "NOT_FOUND"]
            /\ spc' = [spc EXCEPT ![s] = "done"]
            /\ sresp' = [sresp EXCEPT ![s] = SubmitError("NotFoundError", FALSE)]
            /\ UNCHANGED <<transfers, payoutRequests>>
       ELSE LET decision == SubmitDecision(transfers[t].status, sreq[s].retry) IN
            /\ sseen' = [sseen EXCEPT ![s] = transfers[t].status]
            /\ CASE decision = "start" ->
                      /\ transfers' = [transfers EXCEPT ![t].status = "SUBMITTING"]
                      /\ payoutRequests' = StoreRequest(payoutRequests,
                            [ payout_id |-> t,
                              idempotency_key |-> IdempotencyKey(t, s),
                              status |-> "new",
                              stripe_payout_id |-> None ])
                      /\ spc' = [spc EXCEPT ![s] = "gateway"]
                      /\ UNCHANGED sresp
                 [] decision = "existing" ->
                      /\ spc' = [spc EXCEPT ![s] = "done"]
                      /\ sresp' = [sresp EXCEPT
                                     ![s] = PayoutResponse(PayoutRecord(payoutRequests, t))]
                      /\ UNCHANGED <<transfers, payoutRequests>>
                 [] OTHER ->
                      /\ spc' = [spc EXCEPT ![s] = "done"]
                      /\ sresp' = [sresp EXCEPT
                                     ![s] = SubmitError("InvalidStateTransitionError", FALSE)]
                      /\ UNCHANGED <<transfers, payoutRequests>>
    /\ UNCHANGED <<lastBody, gwProcessed, moneyMoved, gwLog, sbody, sreq, soutcome>>
    /\ UNCHANGED nonPayoutVars

\* The provider ids the gateway holds for a key.
ProviderIds(key) == { g.provider_id : g \in { x \in gwProcessed : x.idempotency_key = key } }

\* submit_transfer: the gateway client's submit answers.  A key the provider has
\* paid out is answered from its record and moves no money; a call that fails
\* after the provider acted (retryable) may have moved the money.
CallGateway(s) ==
    /\ spc[s] = "gateway"
    /\ LET t == sreq[s].transfer_id
           key == (PayoutRecord(payoutRequests, t)).idempotency_key
       IN  \E outcome \in {"ok", "retryable", "fatal"}, moved \in BOOLEAN :
              /\ IF ProviderIds(key) # {}
                 THEN outcome # "fatal" /\ ~moved
                 ELSE (outcome = "ok" => moved) /\ (outcome = "fatal" => ~moved)
              /\ gwProcessed' =
                    IF moved
                    THEN gwProcessed \cup { [ idempotency_key |-> key,
                                              provider_id |-> Cardinality(gwProcessed) + 1 ] }
                    ELSE gwProcessed
              /\ moneyMoved' = IF moved THEN [moneyMoved EXCEPT ![t] = @ + 1]
                               ELSE moneyMoved
              /\ gwLog' = gwLog \cup { [ call |-> s, transfer_id |-> t,
                                         idempotency_key |-> key, outcome |-> outcome ] }
              /\ soutcome' = [soutcome EXCEPT ![s] = outcome]
    /\ spc' = [spc EXCEPT ![s] = "persist"]
    /\ UNCHANGED <<transfers, lastBody, payoutRequests, sbody, sreq, sseen, sresp>>
    /\ UNCHANGED nonPayoutVars

\* submit_transfer: the gateway's answer is persisted and the call returns.
PersistOutcome(s) ==
    /\ spc[s] = "persist"
    /\ LET t == sreq[s].transfer_id
           old == PayoutRecord(payoutRequests, t)
           new == [ old EXCEPT !.status = RequestStatusAfterGateway(soutcome[s]),
                               !.stripe_payout_id =
                                   IF soutcome[s] = "ok"
                                   THEN ProviderIds(old.idempotency_key) ELSE None ]
       IN  /\ transfers' = [transfers EXCEPT ![t].status = StatusAfterGateway(soutcome[s])]
           /\ payoutRequests' = (payoutRequests \ {old}) \cup {new}
           /\ sresp' = [sresp EXCEPT ![s] =
                          IF soutcome[s] = "ok" THEN PayoutResponse(new)
                          ELSE SubmitError("GatewayError", soutcome[s] = "retryable")]
    /\ spc' = [spc EXCEPT ![s] = "done"]
    /\ UNCHANGED <<lastBody, gwProcessed, moneyMoved, gwLog, sbody, sreq, sseen, soutcome>>
    /\ UNCHANGED nonPayoutVars

\* ------------------------------------- PaymentAccountEditHistoryRepository

MaxRecords == 2        \* record_bank_update calls
MaxReads == 1          \* calls of the read operations
MaxClock == 3          \* the clock runs from 1 to MaxClock

RecordCalls == 1..MaxRecords
ReadCalls == 1..MaxReads
Times == 1..MaxClock

\* BankUpdateHistoryOwnerType
STORE == "STORE"
OwnerTypes == {STORE, "DASHER"}

PaymentAccountIds == {1, 2}

\* PaymentAccountEditHistoryCreate: the caller's data; it may carry a timestamp
\* of the caller's clock.
PaymentAccountEditHistoryCreates ==
    { [ payment_account_id |-> 1, owner_type |-> STORE, timestamp |-> None ],
      [ payment_account_id |-> 1, owner_type |-> STORE, timestamp |-> {99} ],
      [ payment_account_id |-> 1, owner_type |-> "DASHER", timestamp |-> None ],
      [ payment_account_id |-> 2, owner_type |-> STORE, timestamp |-> {99} ] }

\* within_last_timedelta: None, a zero-length window or a longer one.
Timedeltas == {None, {0}, {1}}

\* The start_time and end_time a time-range query can name; the last is empty.
TimeRanges == { <<1, 1>>, <<1, 2>>, <<2, 3>>, <<3, 2>> }

\* Insert.values(data.dict(skip_defaults=True), timestamp=ts_now): the keyword
\* argument is set after the dict and replaces its entry.
InsertValuesDataWins(data, ts_now) ==
    [ payment_account_id |-> data.payment_account_id,
      owner_type |-> data.owner_type,
      timestamp |-> IF data.timestamp = None THEN ts_now
                    ELSE CHOOSE t \in data.timestamp : TRUE ]

InsertValues(data, ts_now) ==
    [ payment_account_id |-> data.payment_account_id,
      owner_type |-> data.owner_type,
      timestamp |-> ts_now ]

\* The row the table gives the inserted values: the next serial id.
NewRow(table, values) ==
    [ id |-> Len(table) + 1,
      payment_account_id |-> values.payment_account_id,
      owner_type |-> values.owner_type,
      timestamp |-> values.timestamp ]

\* table.insert().values(...).returning(...) on the master.
InsertRowUpsert(table, values) ==
    IF \E i \in 1..Len(table) : table[i].payment_account_id = values.payment_account_id
    THEN LET i == CHOOSE j \in 1..Len(table) :
                     table[j].payment_account_id = values.payment_account_id
         IN  [table EXCEPT ![i] = [NewRow(table, values) EXCEPT !.id = i]]
    ELSE Append(table, NewRow(table, values))

InsertRow(table, values) == Append(table, NewRow(table, values))

\* The rows the replica holds.
ReplicaRows == { master[i] : i \in 1..replicated }

\* if within_last_timedelta: None is falsy, and so is a zero timedelta.
Truthy(within_last_timedelta) ==
    /\ within_last_timedelta # None
    /\ within_last_timedelta # {0}

\* get_most_recent_bank_update: the where clause.
MostRecentQuery(rows, payment_account_id, within_last_timedelta, now) ==
    { r \in rows :
        /\ r.payment_account_id = payment_account_id
        /\ Truthy(within_last_timedelta) =>
              \A w \in within_last_timedelta : r.timestamp > now - w }

\* order_by(desc(timestamp)) and fetch_one: a first row of the ordering, if any.
FirstByTimestampDesc(rows) ==
    { r \in rows : \A o \in rows : o.timestamp <= r.timestamp }

\* get_recent_bank_update_payment_account_ids: the where clause.
RecentQuery(rows, last_bank_account_update_allowed_at) ==
    { r \in rows : r.timestamp >= last_bank_account_update_allowed_at }

\* get_bank_updates_for_store_with_payment_account_and_time_range: the where clause.
TimeRangeQueryEndExclusive(rows, payment_account_id, start_time, end_time) ==
    { r \in rows :
        /\ r.payment_account_id = payment_account_id
        /\ r.owner_type = STORE
        /\ r.timestamp >= start_time
        /\ r.timestamp < end_time }

TimeRangeQuery(rows, payment_account_id, start_time, end_time) ==
    { r \in rows :
        /\ r.payment_account_id = payment_account_id
        /\ r.owner_type = STORE
        /\ r.timestamp >= start_time
        /\ r.timestamp <= end_time }

NoData == [ payment_account_id |-> 0, owner_type |-> "", timestamp |-> None ]

NoReadCall ==
    [ op |-> "", payment_account_id |-> 0, within_last_timedelta |-> None,
      start_time |-> 0, end_time |-> 0 ]

HistoryInit ==
    /\ clock = 1
    /\ master = <<>>
    /\ replicated = 0
    /\ hpc = [h \in RecordCalls |-> "idle"]
    /\ hdata = [h \in RecordCalls |-> NoData]
    /\ hts = [h \in RecordCalls |-> 0]
    /\ hret = [h \in RecordCalls |-> None]
    /\ rpc = [q \in ReadCalls |-> "idle"]
    /\ rcall = [q \in ReadCalls |-> NoReadCall]
    /\ rnow = [q \in ReadCalls |-> 0]
    /\ rknown = [q \in ReadCalls |-> {}]
    /\ rseen = [q \in ReadCalls |-> {}]
    /\ rresult = [q \in ReadCalls |-> {}]

\* The server's clock advances.
Tick ==
    /\ clock < MaxClock
    /\ clock' = clock + 1
    /\ UNCHANGED <<master, replicated, hpc, hdata, hts, hret,
                   rpc, rcall, rnow, rknown, rseen, rresult>>
    /\ UNCHANGED nonHistoryVars

\* The replica applies the master's next insert.
Replicate ==
    /\ replicated < Len(master)
    /\ replicated' = replicated + 1
    /\ UNCHANGED <<clock, master, hpc, hdata, hts, hret,
                   rpc, rcall, rnow, rknown, rseen, rresult>>
    /\ UNCHANGED nonHistoryVars

\* record_bank_update is called: ts_now is read, the insert is awaited.
RecordBankUpdate(h, data) ==
    /\ hpc[h] = "idle"
    /\ IF h = 1 THEN TRUE ELSE hpc[h - 1] # "idle"
    /\ hdata' = [hdata EXCEPT ![h] = data]
    /\ hts' = [hts EXCEPT ![h] = clock]
    /\ hpc' = [hpc EXCEPT ![h] = "insert"]
    /\ UNCHANGED <<clock, master, replicated, hret,
                   rpc, rcall, rnow, rknown, rseen, rresult>>
    /\ UNCHANGED nonHistoryVars

\* record_bank_update: the master answers the insert with the row.
InsertBankUpdate(h) ==
    /\ hpc[h] = "insert"
    /\ master' = InsertRow(master, InsertValues(hdata[h], hts[h]))
    /\ hret' = [hret EXCEPT ![h] =
                   {NewRow(master, InsertValues(hdata[h], hts[h]))} \cap
                   { master'[i] : i \in 1..Len(master') }]
    /\ hpc' = [hpc EXCEPT ![h] = "done"]
    /\ UNCHANGED <<clock, replicated, hdata, hts,
                   rpc, rcall, rnow, rknown, rseen, rresult>>
    /\ UNCHANGED nonHistoryVars

\* A read operation is called: its query is built, the replica is awaited.
ReadCalled(q, op, payment_account_id, within_last_timedelta, start_time, end_time) ==
    /\ rpc[q] = "idle"
    /\ IF q = 1 THEN TRUE ELSE rpc[q - 1] # "idle"
    /\ rcall' = [rcall EXCEPT ![q] =
                    [ op |-> op, payment_account_id |-> payment_account_id,
                      within_last_timedelta |-> within_last_timedelta,
                      start_time |-> start_time, end_time |-> end_time ]]
    /\ rnow' = [rnow EXCEPT ![q] = clock]
    /\ rknown' = [rknown EXCEPT ![q] = UNION { hret[h] : h \in RecordCalls }]
    /\ rpc' = [rpc EXCEPT ![q] = "fetch"]
    /\ UNCHANGED <<clock, master, replicated, hpc, hdata, hts, hret, rseen, rresult>>
    /\ UNCHANGED nonHistoryVars

get_most_recent_bank_update(q, payment_account_id, within_last_timedelta) ==
    ReadCalled(q, "get_most_recent_bank_update",
               payment_account_id, within_last_timedelta, 0, 0)

get_recent_bank_update_payment_account_ids(q, last_bank_account_update_allowed_at) ==
    ReadCalled(q, "get_recent_bank_update_payment_account_ids",
               0, None, last_bank_account_update_allowed_at, 0)

get_bank_updates_for_store_with_payment_account_and_time_range(q, payment_account_id, start_time, end_time) ==
    ReadCalled(q, "get_bank_updates_for_store_with_payment_account_and_time_range",
               payment_account_id, None, start_time, end_time)

\* A read operation: the replica answers and the call returns.
ReplicaFetch(q) ==
    /\ rpc[q] = "fetch"
    /\ rseen' = [rseen EXCEPT ![q] = ReplicaRows]
    /\ LET call == rcall[q]
       IN  CASE call.op = "get_most_recent_bank_update" ->
                  LET first == FirstByTimestampDesc(
                                  MostRecentQuery(ReplicaRows, call.payment_account_id,
                                                  call.within_last_timedelta, rnow[q]))
                  IN  IF first = {}
                      THEN rresult' = [rresult EXCEPT ![q] = None]
                      ELSE \E row \in first : rresult' = [rresult EXCEPT ![q] = {row}]
             [] call.op = "get_recent_bank_update_payment_account_ids" ->
                  rresult' = [rresult EXCEPT ![q] =
                      { [ payment_account_id |-> r.payment_account_id ] :
                        r \in RecentQuery(ReplicaRows, call.start_time) }]
             [] OTHER ->
                  rresult' = [rresult EXCEPT ![q] =
                      TimeRangeQuery(ReplicaRows, call.payment_account_id,
                                     call.start_time, call.end_time)]
    /\ rpc' = [rpc EXCEPT ![q] = "done"]
    /\ UNCHANGED <<clock, master, replicated, hpc, hdata, hts, hret, rcall, rnow, rknown>>
    /\ UNCHANGED nonHistoryVars

HistoryNext ==
    \/ Tick
    \/ Replicate
    \/ \E h \in RecordCalls, data \in PaymentAccountEditHistoryCreates :
          RecordBankUpdate(h, data)
    \/ \E h \in RecordCalls : InsertBankUpdate(h)
    \/ \E q \in ReadCalls, a \in PaymentAccountIds, w \in Timedeltas :
          get_most_recent_bank_update(q, a, w)
    \/ \E q \in ReadCalls, t \in Times : get_recent_bank_update_payment_account_ids(q, t)
    \/ \E q \in ReadCalls, a \in PaymentAccountIds, range \in TimeRanges :
          get_bank_updates_for_store_with_payment_account_and_time_range(
              q, a, range[1], range[2])
    \/ \E q \in ReadCalls : ReplicaFetch(q)

SubmitNext ==
    \/ \E s \in SubmitCalls, t \in TransferIds, body \in SubmitTransferBodies :
          SubmitTransfer(s, t, body)
    \/ \E s \in SubmitCalls : CheckTransfer(s)
    \/ \E s \in SubmitCalls : CallGateway(s)
    \/ \E s \in SubmitCalls : PersistOutcome(s)

PayoutNext ==
    \/ \E body \in CreateTransferBodies : CreateTransfer(body)
    \/ SubmitNext

CreateNext == \E body \in CreateTransferBodies : CreateTransferRecorded(body)

RecordedNext ==
    \/ \E body \in CreateTransferBodies : CreateTransferRecorded(body)
    \/ SubmitNext

Init == PayinInit /\ PayoutInit /\ UpdateInit /\ HistoryInit

Next == PayinNext \/ PayoutNext \/ UpdateNext \/ HistoryNext

\* The whole service.
Spec == Init /\ [][Next]_vars

\* The two APIs share no state: each is checked with the other at rest.
PayinSpec == Init /\ [][PayinNext]_vars

PayoutSpec == Init /\ [][PayoutNext]_vars

\* The transfer API with the body of the latest create_transfer on record.
RecordedSpec == Init /\ [][RecordedNext]_vars

\* Sequences of create_transfer requests alone.
CreateSpec == Init /\ [][CreateNext]_vars

\* update_cart_payment requests against the cart payments earlier requests stored.
SeededInit == SeededPayinInit /\ PayoutInit /\ UpdateInit /\ HistoryInit

UpdateSpec == SeededInit /\ [][UpdateNext]_vars

\* The edit-history repository: record_bank_update and the three reads.
HistorySpec == Init /\ [][HistoryNext]_vars

\* ------------------------------------------------------ cart payment: claims

\* The CartPayment ids a response carries (none for an exception).
ResponseIds(c) == { cp.id : cp \in response[c].cart_payment }

\* The error codes an exception carries (none for a normal return).
ResponseCodes(c) == { e.error_code : e \in response[c].error }

PaymentMethodCodes ==
    { PAYMENT_METHOD_GET_NOT_FOUND, PAYMENT_METHOD_GET_PAYER_PAYMENT_METHOD_MISMATCH }

\* C1: every idempotency key has at most one stored CartPayment and stored ids
\* are pairwise distinct uuid4 values; the stored row carries the id drawn by one
\* request of that key, which gets it back; every request that returns normally
\* returns the id stored under its key; and a request equal to one that returned
\* normally returns normally too (unless its payment method lookup failed), so a
\* replay gets the first call's id although it drew a uuid4 of its own.
C1_OneCartPaymentPerKey ==
    /\ \A r1, r2 \in cartPayments :
          (r1.idempotency_key = r2.idempotency_key
             \/ r1.cart_payment.id = r2.cart_payment.id) => r1 = r2
    /\ \A r \in cartPayments :
          /\ r.cart_payment.id \in 1..uuidCounter
          /\ \E c \in Calls :
                /\ requestModel[c].id = r.cart_payment.id
                /\ request[c].idempotency_key = r.idempotency_key
                /\ pc[c] = "done" => ResponseIds(c) = {r.cart_payment.id}
    /\ \A c \in Calls :
          (pc[c] = "done" /\ response[c].kind = "ok") =>
             \E r \in cartPayments :
                /\ r.idempotency_key = request[c].idempotency_key
                /\ ResponseIds(c) = {r.cart_payment.id}
    /\ \A c, d \in Calls :
          (/\ pc[c] = "done" /\ pc[d] = "done"
           /\ request[c] = request[d]
           /\ response[c].kind = "ok") =>
             \/ ResponseIds(d) = ResponseIds(c)
             \/ ResponseCodes(d) \subseteq PaymentMethodCodes /\ ResponseCodes(d) # {}

\* C1 witness: a replay. Two finished requests with the same key and payload, built
\* with different uuid4 ids, returned the same id, and one row is stored.
C1_Witness ==
    \E c, d \in Calls :
       /\ c # d /\ pc[c] = "done" /\ pc[d] = "done"
       /\ request[c] = request[d]
       /\ requestModel[c].id # requestModel[d].id
       /\ response[c].kind = "ok" /\ response[d].kind = "ok"
       /\ ResponseIds(c) = ResponseIds(d)
       /\ Cardinality(cartPayments) = 1

\* A finished request whose key holds a stored CartPayment of another amount
\* returned no CartPayment: it raised ConflictError, or its payment method lookup
\* had failed before.
C2_ConflictRaised ==
    \A c \in Calls : \A r \in cartPayments :
       (/\ pc[c] = "done"
        /\ r.idempotency_key = request[c].idempotency_key
        /\ r.cart_payment.amount # request[c].amount) =>
          /\ response[c].kind = "exception"
          /\ response[c].cart_payment = None
          /\ ResponseCodes(c) \subseteq ({CONFLICT_ERROR} \cup PaymentMethodCodes)
          /\ ResponseCodes(c) # {}

\* No step changes or removes a stored row.
C2_StoredUnchanged == \A r \in cartPayments : r \in cartPayments'

\* C2: submit_payment under a key whose stored CartPayment has a different amount
\* fails with ConflictError, returns no CartPayment, and the stored CartPayment
\* (id and amount) stays as it was.
C2_DifferentAmountConflicts ==
    [](C2_ConflictRaised) /\ [][C2_StoredUnchanged]_vars

\* C2 witness: a finished request that raised ConflictError against a stored row
\* of its key with another amount.
C2_Witness ==
    \E c \in Calls : \E r \in cartPayments :
       /\ pc[c] = "done"
       /\ r.idempotency_key = request[c].idempotency_key
       /\ r.cart_payment.amount # request[c].amount
       /\ ResponseCodes(c) = {CONFLICT_ERROR}

\* C3: under every interleaving, a key has one inserted row; no request fails
\* with the storage uniqueness violation; and a request that lost the insert race
\* to a request with the same payload returns the winner's id.
C3_ConcurrentSameKey ==
    /\ \A k \in Keys : Cardinality(get_by_idempotency_key(cartPayments, k)) <= 1
    /\ \A c \in Calls : UNIQUE_VIOLATION \notin ResponseCodes(c)
    /\ \A c \in Calls : \A r \in cartPayments :
          (/\ pc[c] = "done" /\ raced[c]
           /\ r.idempotency_key = request[c].idempotency_key
           /\ \E d \in Calls : /\ requestModel[d].id = r.cart_payment.id
                               /\ request[d] = request[c]) =>
             /\ response[c].kind = "ok"
             /\ ResponseIds(c) = {r.cart_payment.id}

\* C3 witness: a request lost the insert race and returned the winner's id, which
\* is not the id it was built with.
C3_Witness ==
    \E c \in Calls :
       /\ pc[c] = "done" /\ raced[c]
       /\ response[c].kind = "ok"
       /\ ResponseIds(c) # {requestModel[c].id}
       /\ \E d \in Calls : d # c /\ pc[d] = "done" /\ ResponseIds(d) = ResponseIds(c)

\* The fields of a PaymentException's error.
ErrorOf(payment_error) ==
    [ error_code |-> payment_error.error_code,
      error_message |-> payment_error.error_message,
      retryable |-> payment_error.retryable ]

\* C18: a request whose submit_payment raised a PaymentError raised a
\* PaymentException with that error's error_code, error_message and retryable,
\* with status 400 for PAYMENT_METHOD_GET_NOT_FOUND, 403 for
\* PAYMENT_METHOD_GET_PAYER_PAYMENT_METHOD_MISMATCH and 500 for any other code,
\* and returned no CartPayment; no other request raised a PaymentException.
C18_PaymentErrorToException ==
    \A c \in Calls :
       /\ \A pe \in paymentError[c] :
             /\ response[c].kind = "exception"
             /\ response[c].cart_payment = None
             /\ response[c].error = {ErrorOf(pe)}
             /\ response[c].http_status_code =
                   CASE pe.error_code = "PAYMENT_METHOD_GET_NOT_FOUND" -> 400
                     [] pe.error_code = "PAYMENT_METHOD_GET_PAYER_PAYMENT_METHOD_MISMATCH" -> 403
                     [] OTHER -> 500
       /\ response[c].kind = "exception" => paymentError[c] # None

\* C18 witness: a request raised a PaymentException with status 500 for an
\* error code the adapter does not single out, carrying the PaymentError's fields.
C18_Witness ==
    \E d \in Calls :
       /\ pc[d] = "done"
       /\ paymentError[d] = {PaymentError(CONFLICT_ERROR, FALSE)}
       /\ ResponseCodes(d) = {CONFLICT_ERROR}
       /\ response[d].http_status_code = 500
       /\ response[d].cart_payment = None

\* The Optional value of a field of an Optional sub-record of the request.
RequestField(sub, name) == { o[name] : o \in sub }

\* C19: the CartPayment request_to_model builds carries every sub-record field
\* of the request: each equals the request's value when the sub-record is
\* supplied and is None when it is omitted.
C19_SubRecordsCarried ==
    \A c \in Calls :
       pc[c] # "idle" =>
          /\ requestModel[c].legacy_payment.consumer_id =
                RequestField(request[c].legacy_payment, "consumer_id")
          /\ requestModel[c].legacy_payment.charge_id =
                RequestField(request[c].legacy_payment, "charge_id")
          /\ requestModel[c].legacy_payment.stripe_customer_id =
                RequestField(request[c].legacy_payment, "stripe_customer_id")
          /\ requestModel[c].split_payment.payout_account_id =
                RequestField(request[c].split_payment, "payout_account_id")
          /\ requestModel[c].split_payment.application_fee_amount =
                RequestField(request[c].split_payment, "application_fee_amount")

\* ------------------------------------------------ cart payment update: claims

\* The stored CartPayments of an id.
StoredOf(rows, id) == { r.cart_payment : r \in get_by_id(rows, id) }

\* The adapter passes None for an omitted legacy_payment or metadata, and only then.
C11_NonePassed ==
    \A u \in UpdateCalls :
       upc[u] # "idle" =>
          /\ (uargs[u].legacy_payment = None) = (ubody[u].request.legacy_payment = None)
          /\ (uargs[u].metadata = None) = (ubody[u].request.metadata = None)

\* What the write of update request u may change in a stored CartPayment.
C11_Written(u, old, new) ==
    LET req == ubody[u].request
    IN  /\ req.legacy_payment = None => new.legacy_payment = old.legacy_payment
        /\ req.metadata = None => new.cart_metadata = old.cart_metadata
        /\ req.client_description = None =>
              new.client_description = old.client_description
        /\ req.payer_statement_description = None =>
              new.payer_statement_description = old.payer_statement_description
        /\ new.amount = req.amount
        /\ \A lp \in req.legacy_payment :
              /\ new.legacy_payment.consumer_id = {lp.consumer_id}
              /\ new.legacy_payment.charge_id = {lp.charge_id}
              /\ new.legacy_payment.stripe_customer_id = {lp.stripe_customer_id}
        /\ \A m \in req.metadata : new.cart_metadata.reference_id = m.reference_id
        /\ [ new EXCEPT !.amount = old.amount,
                        !.legacy_payment = old.legacy_payment,
                        !.cart_metadata = old.cart_metadata,
                        !.client_description = old.client_description,
                        !.payer_statement_description = old.payer_statement_description ]
              = old

\* A step that changes the store is the write of one update request: the row it
\* names changes as C11_Written allows and every other row stays.
C11_Step ==
    cartPayments' # cartPayments =>
       \E u \in UpdateCalls :
          /\ upc[u] = "persist" /\ upc'[u] = "done"
          /\ \A r \in cartPayments :
                IF r.cart_payment.id = ubody[u].cart_payment_id
                THEN \E r2 \in cartPayments' :
                        /\ r2.idempotency_key = r.idempotency_key
                        /\ C11_Written(u, r.cart_payment, r2.cart_payment)
                ELSE r \in cartPayments'
          /\ Cardinality(cartPayments') = Cardinality(cartPayments)

\* C11: update_payment leaves every omitted optional field of the stored
\* CartPayment at its prior stored value and changes only the supplied fields;
\* the adapter passes None for an omitted legacy_payment or metadata.
C11_OmittedFieldsKept == [](C11_NonePassed) /\ [][C11_Step]_vars

\* C11 witness: an update that omitted every optional field returned; the row it
\* named has the new amount, which is not the amount it was created with, and
\* the legacy payment and the metadata it was created with.
C11_Witness ==
    \E u \in UpdateCalls : \E c \in Calls :
       /\ upc[u] = "done" /\ uresp[u].kind = "ok"
       /\ ubody[u].request.legacy_payment = None
       /\ ubody[u].request.metadata = None
       /\ ubody[u].request.client_description = None
       /\ requestModel[c].id = ubody[u].cart_payment_id
       /\ requestModel[c].legacy_payment.consumer_id # None
       /\ requestModel[c].amount # ubody[u].request.amount
       /\ \A cp \in StoredOf(cartPayments, ubody[u].cart_payment_id) :
             /\ cp.amount = ubody[u].request.amount
             /\ cp.legacy_payment = requestModel[c].legacy_payment
             /\ cp.cart_metadata = requestModel[c].cart_metadata
             /\ cp.client_description = requestModel[c].client_description

\* A request whose adjustment failed has ended with the gateway's error.
C12_FailedRaised ==
    \A u \in UpdateCalls :
       uadjust[u] = "failed" =>
          /\ upc[u] = "done"
          /\ uresp[u] = UpdateError("GatewayError")

\* Every stored amount is the one the payment was created with or the one of an
\* update request of that payment whose adjustment did not fail.
C12_AmountsAccounted ==
    \A r \in cartPayments :
       \/ \E c \in Calls : /\ requestModel[c].id = r.cart_payment.id
                            /\ requestModel[c].amount = r.cart_payment.amount
       \/ \E u \in UpdateCalls : /\ uadjust[u] # "failed"
                                  /\ upc[u] = "done" /\ uresp[u].kind = "ok"
                                  /\ uargs[u].cart_payment_id = r.cart_payment.id
                                  /\ uargs[u].amount = r.cart_payment.amount

\* The step in which an adjustment fails writes nothing, and a step that changes
\* a stored amount is the write of a request whose adjustment did not fail.
C12_Step ==
    /\ \A u \in UpdateCalls :
          (uadjust'[u] = "failed" /\ uadjust[u] # "failed") => cartPayments' = cartPayments
    /\ \A r \in cartPayments : \A r2 \in cartPayments' :
          (r2.cart_payment.id = r.cart_payment.id
             /\ r2.cart_payment.amount # r.cart_payment.amount) =>
             \E u \in UpdateCalls :
                /\ upc[u] = "persist" /\ upc'[u] = "done"
                /\ uadjust[u] # "failed"
                /\ uargs[u].cart_payment_id = r.cart_payment.id
                /\ uargs[u].amount = r2.cart_payment.amount

\* C12: when the gateway adjustment of an update fails, the call raises, the
\* stored CartPayment keeps its amount, and in no state does the store hold an
\* amount written by a request whose adjustment failed.
C12_FailedAdjustmentInvisible ==
    [](C12_FailedRaised /\ C12_AmountsAccounted) /\ [][C12_Step]_vars

\* C12 witness: an update whose adjustment failed has ended and the CartPayment
\* it named has the amount it was created with, not the requested one.
C12_Witness ==
    \E u \in UpdateCalls : \E c \in Calls :
       /\ upc[u] = "done" /\ uadjust[u] = "failed"
       /\ uresp[u].error_code = "GatewayError"
       /\ requestModel[c].id = uargs[u].cart_payment_id
       /\ \A cp \in StoredOf(cartPayments, uargs[u].cart_payment_id) :
             cp.amount = requestModel[c].amount /\ cp.amount # uargs[u].amount
       /\ StoredOf(cartPayments, uargs[u].cart_payment_id) # {}


\* ---------------------------------------------------------- transfer: claims

\* The gateway calls a submit request made.
GatewayCallsBy(s) == { g \in gwLog : g.call = s }

\* C4: a submit_transfer with retry=false that finds the transfer SUBMITTED
\* returns the stored payout record of the paid submission (with the provider's
\* id), calls the gateway not at all and leaves the transfer SUBMITTED; and the
\* retry=false requests of a transfer have at most one successful gateway call.
C4_SubmittedIsIdempotent ==
    /\ \A s \in SubmitCalls :
          (spc[s] = "done" /\ ~sbody[s].retry /\ sseen[s] = "SUBMITTED") =>
             LET t == sbody[s].transfer_id IN
             /\ sresp[s].kind = "ok"
             /\ sresp[s].payout = RequestsOf(payoutRequests, t)
             /\ \A r \in sresp[s].payout :
                   /\ r.status = "paid"
                   /\ r.stripe_payout_id # None
                   /\ r.stripe_payout_id = ProviderIds(r.idempotency_key)
             /\ GatewayCallsBy(s) = {}
             /\ transfers[t].status = "SUBMITTED"
    /\ \A t \in TransferIds :
          Cardinality({ g \in gwLog : /\ g.transfer_id = t
                                      /\ g.outcome = "ok"
                                      /\ ~sbody[g.call].retry }) <= 1

\* C4 witness: a retry=false request found its transfer SUBMITTED and finished
\* with the payout record, after another request had submitted it.
C4_Witness ==
    \E s \in SubmitCalls :
       /\ spc[s] = "done" /\ ~sbody[s].retry /\ sseen[s] = "SUBMITTED"
       /\ sresp[s].kind = "ok"
       /\ \E g \in gwLog : g.transfer_id = sbody[s].transfer_id /\ g.call # s

\* A retry=true request that read a status other than ERROR has finished with
\* InvalidStateTransitionError and made no gateway call.
C5_InvalidRaised ==
    /\ \A s \in SubmitCalls :
          (sbody[s].retry /\ sseen[s] \in {"CREATED", "SUBMITTING", "SUBMITTED", "SKIPPED"}) =>
             /\ spc[s] = "done"
             /\ sresp[s].kind = "error"
             /\ sresp[s].error_code = "InvalidStateTransitionError"
             /\ GatewayCallsBy(s) = {}
    /\ \A g \in gwLog : sbody[g.call].retry => sseen[g.call] = "ERROR"

\* The step in which such a request reads the status changes no stored row.
C5_NothingWritten ==
    \A s \in SubmitCalls :
       (/\ spc[s] = "check" /\ sbody[s].retry
        /\ sseen'[s] \in {"CREATED", "SUBMITTING", "SUBMITTED", "SKIPPED"}) =>
          /\ transfers' = transfers
          /\ payoutRequests' = payoutRequests

\* C5: submit_transfer with retry=true starts a submission only from ERROR; from
\* any other status it fails with InvalidStateTransitionError, makes no gateway
\* call and leaves the transfer as it was.
C5_RetryOnlyFromError == [](C5_InvalidRaised) /\ [][C5_NothingWritten]_vars

\* C5 witness: a retry=true request on a never attempted (CREATED) transfer has
\* finished with InvalidStateTransitionError, and the transfer is still CREATED.
C5_Witness ==
    \E s \in SubmitCalls :
       /\ spc[s] = "done" /\ sbody[s].retry /\ sseen[s] = "CREATED"
       /\ sresp[s].error_code = "InvalidStateTransitionError"
       /\ transfers[sbody[s].transfer_id].status = "CREATED"

AllowedTransitions ==
    { <<"CREATED", "SUBMITTING">>, <<"SUBMITTING", "SUBMITTED">>,
      <<"CREATED", "ERROR">>, <<"SUBMITTING", "ERROR">>, <<"ERROR", "SUBMITTING">> }

C6_Step ==
    \A t \in DOMAIN transfers :
       transfers'[t].status # transfers[t].status =>
          /\ <<transfers[t].status, transfers'[t].status>> \in AllowedTransitions
          /\ transfers[t].status = "ERROR" =>
                \E s \in SubmitCalls :
                   /\ spc[s] = "check" /\ spc'[s] = "gateway"
                   /\ sbody[s].transfer_id = t
                   /\ sbody[s].retry

C7_Step ==
    \A s \in SubmitCalls :
       (spc[s] = "persist" /\ spc'[s] = "done") =>
          LET t == sbody[s].transfer_id IN
          CASE soutcome[s] = "ok" ->
                 /\ transfers'[t].status = "SUBMITTED"
                 /\ sresp'[s].kind = "ok"
            [] soutcome[s] = "retryable" ->
                 /\ transfers'[t].status = "ERROR"
                 /\ sresp'[s].error_code = "GatewayError" /\ sresp'[s].retryable
            [] OTHER ->
                 /\ transfers'[t].status = "ERROR"
                 /\ sresp'[s].error_code = "GatewayError" /\ ~sresp'[s].retryable

\* A transfer is SUBMITTING only while a submission of it is under way.
C7_NoneLeftSubmitting ==
    \A t \in DOMAIN transfers :
       transfers[t].status = "SUBMITTING" =>
          \E s \in SubmitCalls : /\ spc[s] \in {"gateway", "persist"}
                                 /\ sbody[s].transfer_id = t

\* C7: a submission that reached the gateway ends with the transfer SUBMITTED on
\* success, ERROR with retryable=true on a retryable failure and ERROR with
\* retryable=false otherwise; none leaves the transfer SUBMITTING.
C7_OutcomeDecidesStatus == [](C7_NoneLeftSubmitting) /\ [][C7_Step]_vars

\* C7 witness: one submission failed retryably and finished with retryable=true,
\* another succeeded or failed for good and left its transfer SUBMITTED or ERROR.
C7_Witness ==
    \E s1, s2 \in SubmitCalls :
       /\ spc[s1] = "done" /\ soutcome[s1] = "retryable" /\ sresp[s1].retryable
       /\ spc[s2] = "done" /\ soutcome[s2] \in {"ok", "fatal"} /\ ~sresp[s2].retryable
       /\ transfers[sbody[s2].transfer_id].status \in {"SUBMITTED", "ERROR"}

PayableTotal(body, prior) ==
    Total({ li \in LineItems :
              /\ li.payout_account_id = body.payout_account_id
              /\ body.start_time <= li.time /\ li.time < body.end_time
              /\ li.country \in body.payout_countries
              /\ \A j \in DOMAIN prior :
                    (/\ prior[j].payout_account_id = body.payout_account_id
                     /\ prior[j].status # "CANCELLED") => li \notin prior[j].items })

\* The total of the latest create_transfer.
LastTotal == PayableTotal(lastBody, SubSeq(transfers, 1, Len(transfers) - 1))

\* C9 as stated: a total below T gives a skipped Transfer, every other total a
\* Transfer with that amount.
C9_BelowThresholdOnly ==
    transfers # <<>> =>
       LET new == transfers[Len(transfers)] IN
       /\ LastTotal < MinPayoutThreshold => new.status = "SKIPPED"
       /\ LastTotal >= MinPayoutThreshold =>
             new.status # "SKIPPED" /\ new.amount = LastTotal

C9_CreateStep ==
    Len(transfers') = Len(transfers) + 1 =>
       LET new == transfers'[Len(transfers')]
           total == PayableTotal(lastBody', transfers)
       IN  /\ total <= MinPayoutThreshold => new.status = "SKIPPED"
           /\ total > MinPayoutThreshold =>
                 new.status = "CREATED" /\ new.amount = total
           /\ gwLog' = gwLog

C9_SkippedIsTerminal ==
    \A t \in DOMAIN transfers :
       transfers[t].status = "SKIPPED" =>
          /\ transfers'[t].status = "SKIPPED"
          /\ \A g \in gwLog' : g.transfer_id # t

\* C9 (amended): create_transfer over a window whose payable total is at most T
\* creates the Transfer skipped, a state no step leaves, and makes no gateway
\* call; over any other window it creates the Transfer CREATED with the total as
\* amount.
C9_AtMostThresholdSkipped == [][C9_CreateStep /\ C9_SkippedIsTerminal]_vars

\* C9 witness: a transfer over a window whose total is exactly T was created
\* skipped, after one over a larger total was created with its amount, and a
\* submit request has been refused on a skipped transfer.
C9_Witness ==
    /\ Len(transfers) = 2
    /\ LastTotal = MinPayoutThreshold
    /\ transfers[2].status = "SKIPPED"
    /\ transfers[1].status # "SKIPPED" /\ transfers[1].amount > MinPayoutThreshold
    /\ \E s \in SubmitCalls : spc[s] = "done" /\ sseen[s] = "SKIPPED"

RECURSIVE AmountOf(_, _, _)
\* The amounts of the account's non-cancelled transfers among the first n.
AmountOf(rows, account, n) ==
    IF n = 0 THEN 0
    ELSE AmountOf(rows, account, n - 1)
         + (IF rows[n].payout_account_id = account /\ rows[n].status # "CANCELLED"
            THEN rows[n].amount ELSE 0)

\* C10: no line item is attached to two non-cancelled Transfers; a Transfer's
\* amount is the total of the line items attached to it; so the transfers of an
\* account never add up to more than the account's line items.
C10_NoDoubleCount ==
    /\ \A li \in LineItems :
          Cardinality({ t \in DOMAIN transfers : /\ transfers[t].status # "CANCELLED"
                                                 /\ li \in transfers[t].items }) <= 1
    /\ \A t \in DOMAIN transfers : transfers[t].amount = Total(transfers[t].items)
    /\ \A a \in PayoutAccounts :
          AmountOf(transfers, a, Len(transfers))
             <= Total({ li \in LineItems : li.payout_account_id = a })

\* C10 witness: the second create_transfer named a window and countries that
\* hold a line item of the first Transfer, and was created with an amount that
\* leaves it out.
C10_Witness ==
    /\ Len(transfers) = 2
    /\ transfers[1].payout_account_id = lastBody.payout_account_id
    /\ transfers[2].status # "SKIPPED"
    /\ \E li \in transfers[1].items :
          /\ lastBody.start_time <= li.time /\ li.time < lastBody.end_time
          /\ li.country \in lastBody.payout_countries
          /\ li \notin transfers[2].items

\* ------------------------------------------ payment account edit history: claims

\* The rows the master holds.
MasterRows == { master[i] : i \in 1..Len(master) }

\* A finished record_bank_update returned the row it inserted, whose timestamp is
\* the ts_now it read; every stored row is the row of one such call.
C13_ClockStored ==
    /\ \A h \in RecordCalls :
          hpc[h] = "done" =>
             \E row \in hret[h] :
                /\ hret[h] = {row}
                /\ row.timestamp = hts[h]
                /\ hts[h] \in 1..clock
                /\ row.id \in 1..Len(master)
                /\ master[row.id] = row
    /\ \A i \in 1..Len(master) :
          \E h \in RecordCalls : hret[h] = {master[i]} \/ hpc[h] = "insert"

\* The ts_now of a call is the clock at the step that enters it.
C13_ClockRead ==
    \A h \in RecordCalls :
       (hpc[h] = "idle" /\ hpc'[h] = "insert") => hts'[h] = clock

\* C13: record_bank_update stores and returns a row whose timestamp is the server
\* clock value the call read; a timestamp in the caller's data is never stored.
C13_ServerTimestamp == [](C13_ClockStored) /\ [][C13_ClockRead]_vars

\* C13 witness: a call whose data carried the caller's timestamp returned a row
\* with the clock value it read, while the clock has moved on since.
C13_Witness ==
    \E h \in RecordCalls : \E row \in hret[h] :
       /\ hpc[h] = "done"
       /\ hdata[h].timestamp = {99}
       /\ row.timestamp = hts[h]
       /\ row.timestamp # 99
       /\ hts[h] < clock

\* A step keeps every row of the master as it is and adds one row for each
\* record_bank_update that ends in it.
C14_Step ==
    /\ \A i \in 1..Len(master) : i <= Len(master') /\ master'[i] = master[i]
    /\ Len(master') = Len(master)
          + Cardinality({ h \in RecordCalls : hpc[h] = "insert" /\ hpc'[h] = "done" })
    /\ Cardinality({ h \in RecordCalls : hpc[h] = "insert" /\ hpc'[h] = "done" }) <= 1
    /\ (\E q \in ReadCalls : rpc'[q] # rpc[q]) => master' = master

\* C14: the edit history is append-only: no operation changes or removes a row,
\* the reads add none and each record_bank_update adds exactly one.
C14_AppendOnly == [][C14_Step]_vars

\* C14 witness: two rows of one account are stored, the first as it was inserted,
\* and a read that saw the first has returned.
C14_Witness ==
    /\ Len(master) = 2
    /\ master[1].payment_account_id = master[2].payment_account_id
    /\ \A h \in RecordCalls : hpc[h] = "done"
    /\ \E h \in RecordCalls : hret[h] = {master[1]}
    /\ \E q \in ReadCalls : rpc[q] = "done" /\ rseen[q] = {master[1]} /\ rresult[q] # {}

\* C15: the order in which rows were inserted agrees with the order of their
\* timestamps: a row inserted later never has a smaller timestamp.
C15_InsertOrderIsTimestampOrder ==
    \A i, j \in 1..Len(master) :
       i < j => master[i].timestamp <= master[j].timestamp

\* C16: get_most_recent_bank_update returns a row of the account with the
\* greatest timestamp among those that, when a window is given (a zero-length
\* one too), are later than now minus the window; None exactly when there is none.
C16_MostRecentWithinWindow ==
    \A q \in ReadCalls :
       (rpc[q] = "done" /\ rcall[q].op = "get_most_recent_bank_update") =>
          LET rows == { r \in rseen[q] :
                          /\ r.payment_account_id = rcall[q].payment_account_id
                          /\ \A w \in rcall[q].within_last_timedelta :
                                r.timestamp > rnow[q] - w }
          IN  /\ (rresult[q] = None) = (rows = {})
              /\ \A r \in rresult[q] :
                    /\ r \in rows
                    /\ \A o \in rows : o.timestamp <= r.timestamp

\* C17: the time-range query returns exactly the rows of the account with owner
\* type STORE and start_time <= timestamp <= end_time that the store it reads
\* holds, and nothing else.
C17_TimeRangeExact ==
    \A q \in ReadCalls :
       (/\ rpc[q] = "done"
        /\ rcall[q].op = "get_bank_updates_for_store_with_payment_account_and_time_range") =>
          /\ rresult[q] \subseteq rseen[q]
          /\ \A r \in rseen[q] :
                r \in rresult[q] <=>
                   /\ r.payment_account_id = rcall[q].payment_account_id
                   /\ r.owner_type = "STORE"
                   /\ rcall[q].start_time <= r.timestamp
                   /\ r.timestamp <= rcall[q].end_time

\* C17 witness: a time-range query returned a STORE row whose timestamp is its
\* end_time and left out a row of the same account in the range that is not STORE.
C17_Witness ==
    \E q \in ReadCalls :
       /\ rpc[q] = "done"
       /\ rcall[q].op = "get_bank_updates_for_store_with_payment_account_and_time_range"
       /\ \E r \in rresult[q] : r.timestamp = rcall[q].end_time
       /\ \E o \in rseen[q] \ rresult[q] :
             /\ o.payment_account_id = rcall[q].payment_account_id
             /\ o.owner_type # "STORE"
             /\ rcall[q].start_time <= o.timestamp
             /\ o.timestamp <= rcall[q].end_time

\* C20: a read called after record_bank_update returned row r sees r: the most
\* recent row of r's account (no window) is then at least as late as r, and a
\* time-range query whose range contains a STORE row r includes r.
C20_ReadYourWrites ==
    \A q \in ReadCalls : \A r \in rknown[q] :
       rpc[q] = "done" =>
          /\ (/\ rcall[q].op = "get_most_recent_bank_update"
              /\ rcall[q].within_last_timedelta = None
              /\ rcall[q].payment_account_id = r.payment_account_id) =>
                \E x \in rresult[q] : x.timestamp >= r.timestamp
          /\ (/\ rcall[q].op =
                    "get_bank_updates_for_store_with_payment_account_and_time_range"
              /\ rcall[q].payment_account_id = r.payment_account_id
              /\ r.owner_type = "STORE"
              /\ rcall[q].start_time <= r.timestamp
              /\ r.timestamp <= rcall[q].end_time) =>
                r \in rresult[q]

=============================================================================
